---- MODULE Spec2Model ----
(***************************************************************************)
(* The peer-connection / signaling core of src/src/lib/webrtc.ts (the      *)
(* first WebRTCManager class of the file, lines 13-763).                   *)
(*                                                                         *)
(* Every manager owns a peer table (a JavaScript Map keyed by the remote   *)
(* participant id), the RTCPeerConnection objects it has constructed, its  *)
(* local media stream and its callback slots.  One action is one task of   *)
(* the browser's event loop: an inbound broadcast, a continuation resumed  *)
(* after an await, a transport event, a timer, or a call made by the UI.   *)
(*                                                                         *)
(* The waiting room of src/src/components/Meeting (MeetingRoom.tsx,        *)
(* AdmissionPanel.tsx) is modelled as far as it decides when the local     *)
(* client constructs its manager and joins.                                *)
(***************************************************************************)
EXTENDS Integers, Sequences, FiniteSets, TLC

VARIABLES
  peers,          \* [manager -> set of PeerConnection records]   (Map<string, PeerConnection>)
  pcs,            \* [manager -> sequence of the RTCPeerConnection objects it constructed]
  localStream,    \* [manager -> the local MediaStream, or none held]
  isInitialized,  \* [manager -> BOOLEAN]  joinMeeting's once-only flag
  announce,       \* [manager -> BOOLEAN]  the 1 s join-announce timer is pending
  leave,          \* [manager -> "no" | "announced" | "done"]  position of leaveMeeting
  subscribed,     \* [manager -> BOOLEAN]  the signaling channel delivers to this manager
  lastCount,      \* [manager -> the count last given to onParticipantCountCallback, 0 = never]
  net,            \* broadcasts in flight, one entry per recipient
  screenTrack,    \* [manager -> the video track of its screen capture and its onended handler]
  admission,      \* the participants table, and the local client's wait for admission
  sent,           \* the messages handed to signalingChannel.send by the last step
  fired,          \* the callbacks invoked by the last step, in order
  last            \* the task the last step ran

vars == <<peers, pcs, localStream, isInitialized, announce, leave, subscribed,
          lastCount, net, screenTrack, admission, sent, fired, last>>

----------------------------------------------------------------------------
(* Bounds of the model *)

MaxTransports == 2     \* RTCPeerConnection objects one manager constructs
MaxTimers == 2         \* pending grace timers of one transport

Managers == {"a", "b"}
Ids == Managers        \* the participant ids that appear in messages
Local == "a"           \* the manager that runs in the single-manager specifications

NoRemote == <<"none", 0>>

----------------------------------------------------------------------------
(* The JavaScript Map that is the peer table *)

MapHas(tbl, id) == \E r \in tbl : r.peerId = id

MapGet(tbl, id) == CHOOSE r \in tbl : r.peerId = id

MapSetKeepingOld(tbl, rec) == tbl \cup {rec}

MapSet(tbl, rec) == {r \in tbl : r.peerId # rec.peerId} \cup {rec}

MapDelete(tbl, id) == {r \in tbl : r.peerId # id}

MapSize(tbl) == Cardinality(tbl)

----------------------------------------------------------------------------
(* Messages and notifications *)

Msg(kind, from, to) ==
  [kind |-> kind, from |-> from, to |-> to, tid |-> 0,
   audioEnabled |-> FALSE, videoEnabled |-> FALSE, isScreenSharing |-> FALSE,
   raised |-> FALSE]

Note(hook, peerId) ==
  [hook |-> hook, peerId |-> peerId, count |-> 0,
   audioEnabled |-> FALSE, videoEnabled |-> FALSE, raised |-> FALSE]

\* a task of the event loop: what started it, the operation it ran, the
\* getUserMedia requests it made (by constraint profile) and whether each
\* resolved with a stream, and whether an error left it uncaught (thrown to
\* the caller, or an unhandled rejection)
Task(source, op) ==
  [source |-> source, op |-> op, calls |-> <<>>, resolved |-> <<>>, threw |-> FALSE]

----------------------------------------------------------------------------
(* Local media *)

NoStream == [held |-> FALSE, audio |-> "none", video |-> "none"]

\* no screen capture is running
NoScreenTrack == [live |-> FALSE, onended |-> "none"]

isAudioEnabled(s) == s.held /\ s.audio = "on"

isVideoEnabled(s) == s.held /\ s.video = "on"

\* the label of a camera track never contains 'screen', and startScreenShare
\* never stores the captured stream in this.localStream
isScreenSharing(s) == FALSE

Tracks(s) ==
  IF s.held
  THEN (IF s.audio # "none" THEN {"audio"} ELSE {}) \cup
       (IF s.video # "none" THEN {"video"} ELSE {})
  ELSE {}

----------------------------------------------------------------------------
(* RTCPeerConnection objects *)

\* senders: the tracks attached to the connection.  described: the kinds of
\* sender the local description was created with, which are the ones the
\* remote end has agreed to receive.
NewPeer(peerId, isInitiator, offer, stream) ==
  [peerId |-> peerId, isInitiator |-> isInitiator,
   connectionState |-> "new",
   localDescription |-> "none", remoteDescription |-> "none",
   remote |-> NoRemote, offer |-> offer,
   pc |-> IF isInitiator THEN "createOffer" ELSE "setRemoteOffer",
   timers |-> 0, senders |-> Tracks(stream), described |-> {}]

\* the screen track travels on the video sender
Slot(track) == IF track = "screen" THEN "video" ELSE track

Slots(tracks) == {Slot(x) : x \in tracks}

\* the tracks that reach the remote end of transport t: those on a sender the
\* local description covers
BeingSent(t) == {x \in t.senders : Slot(x) \in t.described}

signalingState(t) ==
  IF t.localDescription = "offer" /\ t.remoteDescription = "none"
    THEN "have-local-offer"
  ELSE IF t.remoteDescription = "offer" /\ t.localDescription = "none"
    THEN "have-remote-offer"
  ELSE "stable"

Negotiated(t) == t.localDescription # "none" /\ t.remoteDescription # "none"

Closed(t) == t.connectionState = "closed"

\* the remote end of a transport, when that end is a transport of the model
HasModelledRemote(t) ==
  /\ t.remote[1] \in Managers
  /\ t.remote[2] \in 1..Len(pcs[t.remote[1]])

RemoteEnd(t) == pcs[t.remote[1]][t.remote[2]]

\* connectivity can be established between two ends that completed the same
\* offer/answer exchange and are both open
CanConnect(m, i) ==
  LET t == pcs[m][i] IN
  /\ Negotiated(t)
  /\ HasModelledRemote(t) =>
       /\ Negotiated(RemoteEnd(t))
       /\ RemoteEnd(t).remote = <<m, i>>
       /\ ~Closed(RemoteEnd(t))

----------------------------------------------------------------------------
(* The participants table of the database, as the waiting room uses it.    *)
(* The local client is a non-host: it has inserted its row with admitted   *)
(* null and listens for UPDATE events whose new row has its name.          *)

RowIds == {"r1", "r2", "r3"}

Meetings == {"m1", "m2"}

\* the row the local client inserted
OwnRow == "r1"

RowMeeting(row) == IF row = "r2" THEN "m2" ELSE "m1"

RowName(row) == IF row = "r3" THEN "bob" ELSE "ann"

NoDecision ==
  [admitted |-> [row \in RowIds |-> "null"],
   left_at |-> [row \in RowIds |-> FALSE],
   events |-> {},
   phase |-> "waiting"]

----------------------------------------------------------------------------
Init ==
  /\ peers = [m \in Managers |-> {}]
  /\ pcs = [m \in Managers |-> <<>>]
  /\ localStream = [m \in Managers |-> NoStream]
  /\ isInitialized = [m \in Managers |-> FALSE]
  /\ announce = [m \in Managers |-> FALSE]
  /\ leave = [m \in Managers |-> "no"]
  /\ subscribed = [m \in Managers |-> TRUE]
  /\ lastCount = [m \in Managers |-> 0]
  /\ net = {}
  /\ screenTrack = [m \in Managers |-> NoScreenTrack]
  /\ admission = NoDecision
  /\ sent = <<>>
  /\ fired = <<>>
  /\ last = Task("call", "constructor")

----------------------------------------------------------------------------
(* updateParticipantCount: the value given to onParticipantCountCallback *)

Count(tbl) == MapSize(tbl) + 1

CountNote(tbl) == [Note("participantCount", "") EXCEPT !.count = Count(tbl)]

----------------------------------------------------------------------------
(* Inbound signaling: the handlers registered by setupSignaling *)

\* createPeerConnection up to its first await: a new RTCPeerConnection is
\* constructed, the local tracks are added, and the record is stored
StorePeer(m, peerId) ==
  MapSet(peers[m], [peerId |-> peerId, peer |-> Len(pcs[m]) + 1, stream |-> FALSE,
                    audioEnabled |-> TRUE, videoEnabled |-> TRUE,
                    isScreenSharing |-> FALSE])

createPeerConnection(m, peerId, isInitiator, offer) ==
  /\ Len(pcs[m]) < MaxTransports
  /\ pcs' = [pcs EXCEPT ![m] = Append(@, NewPeer(peerId, isInitiator, offer, localStream[m]))]
  /\ peers' = [peers EXCEPT ![m] = StorePeer(m, peerId)]

handleUserJoinedAsAnswerer(m, data) ==
  /\ IF data.from = m
       THEN UNCHANGED <<pcs, peers>>
       ELSE createPeerConnection(m, data.from, FALSE, NoRemote)
  /\ sent' = <<>> /\ fired' = <<>>
  /\ last' = Task("broadcast", "handleUserJoined")
  /\ UNCHANGED <<localStream, isInitialized, announce, leave, subscribed, lastCount>>

\* handleUserJoined up to the await of createOffer
handleUserJoined(m, data) ==
  /\ IF data.from = m
       THEN UNCHANGED <<pcs, peers>>
       ELSE createPeerConnection(m, data.from, TRUE, NoRemote)
  /\ sent' = <<>> /\ fired' = <<>>
  /\ last' = Task("broadcast", "handleUserJoined")
  /\ UNCHANGED <<localStream, isInitialized, announce, leave, subscribed, lastCount>>

\* an offer handled whatever its target
handleOfferUntargeted(m, data) ==
  /\ createPeerConnection(m, data.from, FALSE, <<data.from, data.tid>>)
  /\ sent' = <<>> /\ fired' = <<>>
  /\ last' = Task("broadcast", "handleOffer")
  /\ UNCHANGED <<localStream, isInitialized, announce, leave, subscribed, lastCount>>

\* handleOffer up to the await of setRemoteDescription
handleOffer(m, data) ==
  /\ IF data.to # m
       THEN UNCHANGED <<pcs, peers>>
       ELSE createPeerConnection(m, data.from, FALSE, <<data.from, data.tid>>)
  /\ sent' = <<>> /\ fired' = <<>>
  /\ last' = Task("broadcast", "handleOffer")
  /\ UNCHANGED <<localStream, isInitialized, announce, leave, subscribed, lastCount>>

\* handleAnswer: setRemoteDescription(answer) succeeds on an open transport in
\* have-local-offer and throws InvalidStateError (caught) otherwise
handleAnswer(m, data) ==
  /\ IF /\ data.to = m
        /\ MapHas(peers[m], data.from)
        /\ ~Closed(pcs[m][MapGet(peers[m], data.from).peer])
        /\ signalingState(pcs[m][MapGet(peers[m], data.from).peer]) = "have-local-offer"
       THEN pcs' = [pcs EXCEPT ![m][MapGet(peers[m], data.from).peer] =
                      [@ EXCEPT !.remoteDescription = "answer",
                                !.remote = <<data.from, data.tid>>]]
       ELSE UNCHANGED pcs
  /\ sent' = <<>> /\ fired' = <<>>
  /\ last' = Task("broadcast", "handleAnswer")
  /\ UNCHANGED <<peers, localStream, isInitialized, announce, leave, subscribed, lastCount>>

\* handleIceCandidate: addIceCandidate changes nothing the manager reads
handleIceCandidate(m, data) ==
  /\ sent' = <<>> /\ fired' = <<>>
  /\ last' = Task("broadcast", "handleIceCandidate")
  /\ UNCHANGED <<peers, pcs, localStream, isInitialized, announce, leave, subscribed,
                 lastCount>>

handleUserLeftUnguarded(m, data) ==
  /\ IF MapHas(peers[m], data.from)
       THEN pcs' = [pcs EXCEPT ![m][MapGet(peers[m], data.from).peer].connectionState
                                 = "closed"]
       ELSE UNCHANGED pcs
  /\ peers' = [peers EXCEPT ![m] = MapDelete(@, data.from)]
  /\ fired' = <<Note("peerLeft", data.from), CountNote(peers'[m])>>
  /\ lastCount' = [lastCount EXCEPT ![m] = Count(peers'[m])]
  /\ sent' = <<>>
  /\ last' = Task("broadcast", "handleUserLeft")
  /\ UNCHANGED <<localStream, isInitialized, announce, leave, subscribed>>

handleUserLeft(m, data) ==
  /\ IF MapHas(peers[m], data.from)
       THEN /\ pcs' = [pcs EXCEPT ![m][MapGet(peers[m], data.from).peer].connectionState
                                    = "closed"]
            /\ peers' = [peers EXCEPT ![m] = MapDelete(@, data.from)]
            /\ fired' = <<Note("peerLeft", data.from), CountNote(peers'[m])>>
            /\ lastCount' = [lastCount EXCEPT ![m] = Count(peers'[m])]
       ELSE /\ fired' = <<>>
            /\ UNCHANGED <<pcs, peers, lastCount>>
  /\ sent' = <<>>
  /\ last' = Task("broadcast", "handleUserLeft")
  /\ UNCHANGED <<localStream, isInitialized, announce, leave, subscribed>>

handleMediaStateChangedForAnyone(m, data) ==
  /\ IF data.from # m
       THEN /\ peers' = [peers EXCEPT ![m] =
                 MapSet(@, [peerId |-> data.from, peer |-> 0, stream |-> FALSE,
                            audioEnabled |-> data.audioEnabled,
                            videoEnabled |-> data.videoEnabled,
                            isScreenSharing |-> data.isScreenSharing])]
            /\ fired' = <<[Note("mediaState", data.from) EXCEPT
                             !.audioEnabled = data.audioEnabled,
                             !.videoEnabled = data.videoEnabled]>>
       ELSE /\ fired' = <<>>
            /\ UNCHANGED peers
  /\ sent' = <<>>
  /\ last' = Task("broadcast", "handleMediaStateChanged")
  /\ UNCHANGED <<pcs, localStream, isInitialized, announce, leave, subscribed, lastCount>>

\* handleMediaStateChanged: the sender's own announcements and those of a
\* sender without a record are dropped
handleMediaStateChanged(m, data) ==
  /\ IF data.from # m /\ MapHas(peers[m], data.from)
       THEN /\ peers' = [peers EXCEPT ![m] =
                 MapSet(@, [MapGet(@, data.from) EXCEPT
                              !.audioEnabled = data.audioEnabled,
                              !.videoEnabled = data.videoEnabled,
                              !.isScreenSharing = data.isScreenSharing])]
            /\ fired' = <<[Note("mediaState", data.from) EXCEPT
                             !.audioEnabled = data.audioEnabled,
                             !.videoEnabled = data.videoEnabled]>>
       ELSE /\ fired' = <<>>
            /\ UNCHANGED peers
  /\ sent' = <<>>
  /\ last' = Task("broadcast", "handleMediaStateChanged")
  /\ UNCHANGED <<pcs, localStream, isInitialized, announce, leave, subscribed, lastCount>>

handleHandRaisedKnownOnly(m, data) ==
  /\ fired' = IF data.from # m /\ MapHas(peers[m], data.from)
                THEN <<[Note("handRaised", data.from) EXCEPT !.raised = data.raised]>>
                ELSE <<>>
  /\ sent' = <<>>
  /\ last' = Task("broadcast", "handleHandRaised")
  /\ UNCHANGED <<peers, pcs, localStream, isInitialized, announce, leave, subscribed,
                 lastCount>>

\* the 'hand-raised' listener of setupSignaling
handleHandRaised(m, data) ==
  /\ fired' = IF data.from # m
                THEN <<[Note("handRaised", data.from) EXCEPT !.raised = data.raised]>>
                ELSE <<>>
  /\ sent' = <<>>
  /\ last' = Task("broadcast", "handleHandRaised")
  /\ UNCHANGED <<peers, pcs, localStream, isInitialized, announce, leave, subscribed,
                 lastCount>>

\* setupSignaling: one listener per broadcast event of the meeting's channel
Deliver(m, data) ==
  /\ subscribed[m]
  /\ \/ data.kind = "offer" /\ handleOffer(m, data)
     \/ data.kind = "answer" /\ handleAnswer(m, data)
     \/ data.kind = "ice-candidate" /\ handleIceCandidate(m, data)
     \/ data.kind = "user-joined" /\ handleUserJoined(m, data)
     \/ data.kind = "user-left" /\ handleUserLeft(m, data)
     \/ data.kind = "media-state-changed" /\ handleMediaStateChanged(m, data)
     \/ data.kind = "hand-raised" /\ handleHandRaised(m, data)


----------------------------------------------------------------------------
(* Continuations: a handler resumed after one of its awaits.  The closure  *)
(* holds the RTCPeerConnection itself, not the table's record.             *)

Awaiting(m, i, pc) == i \in 1..Len(pcs[m]) /\ pcs[m][i].pc = pc

SetPc(m, i, pc) == pcs' = [pcs EXCEPT ![m][i].pc = pc]

\* handleUserJoined after createPeerConnection returned: updateParticipantCount
JoinedReturns(m) ==
  /\ fired' = <<CountNote(peers[m])>>
  /\ lastCount' = [lastCount EXCEPT ![m] = Count(peers[m])]

Quiet == fired' = <<>> /\ UNCHANGED lastCount

OfferMsg(m, i) == [Msg("offer", m, pcs[m][i].peerId) EXCEPT !.tid = i]

AnswerMsg(m, i) == [Msg("answer", m, pcs[m][i].peerId) EXCEPT !.tid = i]

\* createPeerConnection after `await peer.createOffer()` and `await
\* peer.setLocalDescription(offer)`.  Both read nothing but the connection
\* itself and reject on a closed one, so the two awaits are taken in one step:
\* on a rejection the catch block logs, createPeerConnection returns and
\* handleUserJoined updates the count; otherwise the offer is handed to the
\* channel and the send is awaited.
ResumeCreateOffer(m, i) ==
  /\ Awaiting(m, i, "createOffer")
  /\ IF Closed(pcs[m][i])
       THEN SetPc(m, i, "done") /\ JoinedReturns(m) /\ sent' = <<>>
       ELSE /\ pcs' = [pcs EXCEPT ![m][i] =
                         [@ EXCEPT !.localDescription = "offer", !.pc = "sendOffer",
                                   !.described = Slots(pcs[m][i].senders)]]
            /\ sent' = <<OfferMsg(m, i)>>
            /\ Quiet
  /\ last' = Task("continuation", "createOffer")
  /\ UNCHANGED <<peers, localStream, isInitialized, announce, leave, subscribed>>

\* the send of the offer settled (either way): createPeerConnection returns and
\* handleUserJoined calls updateParticipantCount
ResumeSendOffer(m, i) ==
  /\ Awaiting(m, i, "sendOffer")
  /\ SetPc(m, i, "done") /\ JoinedReturns(m)
  /\ sent' = <<>>
  /\ last' = Task("continuation", "sendOffer")
  /\ UNCHANGED <<peers, localStream, isInitialized, announce, leave, subscribed>>

\* handleOffer after `await setRemoteDescription(offer)`, `await createAnswer()`
\* and `await setLocalDescription(answer)`, taken in one step for the same
\* reason; the answer is handed to the channel, and what follows the send is a
\* log line.  handleOffer never calls updateParticipantCount.
ResumeSetRemoteOffer(m, i) ==
  /\ Awaiting(m, i, "setRemoteOffer")
  /\ IF Closed(pcs[m][i])
       THEN SetPc(m, i, "done") /\ sent' = <<>>
       ELSE /\ pcs' = [pcs EXCEPT ![m][i] =
                         [@ EXCEPT !.remoteDescription = "offer",
                                   !.remote = pcs[m][i].offer,
                                   !.localDescription = "answer", !.pc = "done",
                                   !.described = Slots(pcs[m][i].senders)]]
            /\ sent' = <<AnswerMsg(m, i)>>
  /\ Quiet
  /\ last' = Task("continuation", "setRemoteOffer")
  /\ UNCHANGED <<peers, localStream, isInitialized, announce, leave, subscribed>>

\* no handler of manager m is suspended at an await
Idle(m) == \A i \in 1..Len(pcs[m]) : pcs[m][i].pc = "done"

----------------------------------------------------------------------------
(* Transport events: peer.onconnectionstatechange, the grace timer it     *)
(* starts, and peer.ontrack.  The closures capture peer and peerId.        *)

Transport(m, i) == i \in 1..Len(pcs[m])

SetState(m, i, state) == pcs' = [pcs EXCEPT ![m][i].connectionState = state]

\* this.peers.delete(peerId); onPeerLeftCallback(peerId); updateParticipantCount()
Remove(m, peerId) ==
  /\ peers' = [peers EXCEPT ![m] = MapDelete(@, peerId)]
  /\ fired' = <<Note("peerLeft", peerId), CountNote(peers'[m])>>
  /\ lastCount' = [lastCount EXCEPT ![m] = Count(peers'[m])]

\* case 'connecting': logged
TransportConnecting(m, i) ==
  /\ Transport(m, i)
  /\ pcs[m][i].connectionState = "new"
  /\ Negotiated(pcs[m][i])
  /\ SetState(m, i, "connecting")
  /\ sent' = <<>> /\ Quiet
  /\ last' = Task("connectionstatechange", "connecting")
  /\ UNCHANGED <<peers, localStream, isInitialized, announce, leave, subscribed>>

\* case 'connected': logged; a pending grace timer is left to fire
TransportConnected(m, i) ==
  /\ Transport(m, i)
  /\ pcs[m][i].connectionState \in {"connecting", "disconnected"}
  /\ CanConnect(m, i)
  /\ SetState(m, i, "connected")
  /\ sent' = <<>> /\ Quiet
  /\ last' = Task("connectionstatechange", "connected")
  /\ UNCHANGED <<peers, localStream, isInitialized, announce, leave, subscribed>>

\* case 'disconnected': setTimeout(..., 5000)
TransportDisconnected(m, i) ==
  /\ Transport(m, i)
  /\ pcs[m][i].connectionState = "connected"
  /\ pcs[m][i].timers < MaxTimers
  /\ pcs' = [pcs EXCEPT ![m][i] =
               [@ EXCEPT !.connectionState = "disconnected", !.timers = @ + 1]]
  /\ sent' = <<>> /\ Quiet
  /\ last' = Task("connectionstatechange", "disconnected")
  /\ UNCHANGED <<peers, localStream, isInitialized, announce, leave, subscribed>>

TransportFailedAsDeparture(m, i) ==
  /\ Transport(m, i)
  /\ pcs[m][i].connectionState \in {"connecting", "disconnected"}
  /\ SetState(m, i, "failed")
  /\ Remove(m, pcs[m][i].peerId)
  /\ sent' = <<>>
  /\ last' = Task("connectionstatechange", "failed")
  /\ UNCHANGED <<localStream, isInitialized, announce, leave, subscribed>>

\* case 'failed': peer.restartIce(), which only marks the connection; no
\* negotiationneeded handler is installed, so nothing else follows
TransportFailed(m, i) ==
  /\ Transport(m, i)
  /\ pcs[m][i].connectionState \in {"connecting", "disconnected"}
  /\ SetState(m, i, "failed")
  /\ sent' = <<>> /\ Quiet
  /\ last' = Task("connectionstatechange", "failed")
  /\ UNCHANGED <<peers, localStream, isInitialized, announce, leave, subscribed>>

\* case 'closed': the event is taken to be deliverable for any transport
\* that is not closed yet (browsers differ on when they dispatch it)
TransportClosed(m, i) ==
  /\ Transport(m, i)
  /\ ~Closed(pcs[m][i])
  /\ SetState(m, i, "closed")
  /\ Remove(m, pcs[m][i].peerId)
  /\ sent' = <<>>
  /\ last' = Task("connectionstatechange", "closed")
  /\ UNCHANGED <<localStream, isInitialized, announce, leave, subscribed>>

GraceTimerFiresUnconditionally(m, i) ==
  /\ Transport(m, i)
  /\ pcs[m][i].timers > 0
  /\ pcs' = [pcs EXCEPT ![m][i].timers = @ - 1]
  /\ Remove(m, pcs[m][i].peerId)
  /\ sent' = <<>>
  /\ last' = Task("timeout", "graceTimer")
  /\ UNCHANGED <<localStream, isInitialized, announce, leave, subscribed>>

\* the callback of the 5 s timer started by case 'disconnected'
GraceTimerFires(m, i) ==
  /\ Transport(m, i)
  /\ pcs[m][i].timers > 0
  /\ pcs' = [pcs EXCEPT ![m][i].timers = @ - 1]
  /\ IF pcs[m][i].connectionState = "disconnected"
       THEN Remove(m, pcs[m][i].peerId)
       ELSE Quiet /\ UNCHANGED peers
  /\ sent' = <<>>
  /\ last' = Task("timeout", "graceTimer")
  /\ UNCHANGED <<localStream, isInitialized, announce, leave, subscribed>>

OnTrackWhenConnected(m, i) ==
  /\ Transport(m, i)
  /\ ~Closed(pcs[m][i])
  /\ pcs[m][i].remoteDescription # "none"
  /\ IF MapHas(peers[m], pcs[m][i].peerId) /\ pcs[m][i].connectionState = "connected"
       THEN /\ peers' = [peers EXCEPT ![m] =
                 MapSet(@, [MapGet(@, pcs[m][i].peerId) EXCEPT !.stream = TRUE])]
            /\ fired' = <<[Note("stream", pcs[m][i].peerId) EXCEPT
                 !.audioEnabled = MapGet(peers[m], pcs[m][i].peerId).audioEnabled,
                 !.videoEnabled = MapGet(peers[m], pcs[m][i].peerId).videoEnabled]>>
       ELSE fired' = <<>> /\ UNCHANGED peers
  /\ sent' = <<>>
  /\ last' = Task("track", "ontrack")
  /\ UNCHANGED <<pcs, localStream, isInitialized, announce, leave, subscribed, lastCount>>

\* peer.ontrack with a non-empty remote stream
OnTrack(m, i) ==
  /\ Transport(m, i)
  /\ ~Closed(pcs[m][i])
  /\ pcs[m][i].remoteDescription # "none"
  /\ IF MapHas(peers[m], pcs[m][i].peerId)
       THEN /\ peers' = [peers EXCEPT ![m] =
                 MapSet(@, [MapGet(@, pcs[m][i].peerId) EXCEPT !.stream = TRUE])]
            /\ fired' = <<[Note("stream", pcs[m][i].peerId) EXCEPT
                 !.audioEnabled = MapGet(peers[m], pcs[m][i].peerId).audioEnabled,
                 !.videoEnabled = MapGet(peers[m], pcs[m][i].peerId).videoEnabled]>>
       ELSE fired' = <<>> /\ UNCHANGED peers
  /\ sent' = <<>>
  /\ last' = Task("track", "ontrack")
  /\ UNCHANGED <<pcs, localStream, isInitialized, announce, leave, subscribed, lastCount>>


----------------------------------------------------------------------------
(* Calls made by the UI layer, and the timers they start *)

InCall(m) == leave[m] = "no"

Acquired(video, audio) ==
  [held |-> TRUE,
   audio |-> IF audio THEN "on" ELSE "none",
   video |-> IF video THEN "on" ELSE "none"]

\* updatePeerConnectionsWithStream: on every transport in the table each sender
\* with a track is given to removeTrack, and each track of the new stream to
\* addTrack; nothing is negotiated.  Once a transport has applied an answer its
\* senders have been in use, so addTrack makes new senders, which the local
\* description does not cover; before that, addTrack takes the freed sender of
\* the same kind again.
updatePeerConnectionsWithStream(m, stream) ==
  pcs' = [pcs EXCEPT ![m] =
            [i \in 1..Len(@) |->
               IF \E r \in peers[m] : r.peer = i
                 THEN [@[i] EXCEPT !.senders = Tracks(stream),
                                   !.described = IF Negotiated(pcs[m][i])
                                                   THEN {}
                                                   ELSE @ \cap Slots(Tracks(stream))]
                 ELSE @[i]]]

getUserMediaCallsRetrying(outcome) ==
  IF outcome = "primary" THEN <<"quality">>
  ELSE IF outcome = "fallback" THEN <<"quality", "fallback">>
  ELSE <<"quality", "fallback", "fallback">>

\* the getUserMedia requests of one initializeMedia call: the quality
\* constraints in the try block, and the fallback constraints in its catch
\* block when that request (or anything after it in the try block) threw
getUserMediaCalls(outcome) ==
  IF outcome = "primary" THEN <<"quality">> ELSE <<"quality", "fallback">>

\* which of those requests resolved with a stream
getUserMediaResolved(outcome) ==
  IF outcome = "primary" THEN <<TRUE>>
  ELSE IF outcome = "fallback" THEN <<FALSE, TRUE>>
  ELSE IF outcome = "reattach" THEN <<TRUE, TRUE>>
  ELSE IF outcome = "reattach-error" THEN <<TRUE, FALSE>>
  ELSE <<FALSE, FALSE>>

\* a track operation of updatePeerConnectionsWithStream threw inside the try
\* block, after the first request had resolved
ReattachThrew(outcome) == outcome \in {"reattach", "reattach-error"}

\* the fallback request threw as well: the inner catch rethrows
Rethrown(outcome) == outcome \in {"error", "reattach-error"}

\* initializeMedia at the moment getUserMedia settles: outcome "primary" (the
\* first request succeeded), "fallback" (the first failed, the second
\* succeeded) or "error" (both failed: the error is thrown to the caller).
\* A request for neither video nor audio is rejected by the browser.
\* Outcomes "reattach" and "reattach-error" are those in which the first
\* request succeeded and the browser threw from the first removeTrack or
\* addTrack of updatePeerConnectionsWithStream: this.localStream has been
\* assigned, no sender has changed, and the catch block runs as it does after
\* a failed request (its request succeeding, resp. failing).
initializeMedia(m, video, audio, outcome) ==
  /\ InCall(m)
  /\ (~video /\ ~audio) => outcome = "error"
  /\ ReattachThrew(outcome) => peers[m] # {}
  /\ IF outcome = "error"
       THEN UNCHANGED <<localStream, pcs>>
       ELSE /\ localStream' = [localStream EXCEPT ![m] = Acquired(video, audio)]
            /\ IF outcome = "reattach-error"
                 THEN UNCHANGED pcs
                 ELSE updatePeerConnectionsWithStream(m, Acquired(video, audio))
  /\ sent' = <<>> /\ Quiet
  /\ last' = [Task("call", "initializeMedia") EXCEPT
                !.calls = getUserMediaCalls(outcome),
                !.resolved = getUserMediaResolved(outcome),
                !.threw = Rethrown(outcome)]
  /\ UNCHANGED <<peers, isInitialized, announce, leave, subscribed>>

\* joinMeeting without its isInitialized guard
joinMeetingUnguarded(m) ==
  /\ InCall(m)
  /\ isInitialized' = [isInitialized EXCEPT ![m] = TRUE]
  /\ announce' = [announce EXCEPT ![m] = TRUE]
  /\ fired' = <<CountNote(peers[m])>>
  /\ lastCount' = [lastCount EXCEPT ![m] = Count(peers[m])]
  /\ sent' = <<>>
  /\ last' = Task("call", "joinMeeting")
  /\ UNCHANGED <<peers, pcs, localStream, leave, subscribed>>

\* joinMeeting: once only; starts the 1 s announce timer and reports the count
joinMeeting(m) ==
  /\ InCall(m)
  /\ IF isInitialized[m]
       THEN Quiet /\ UNCHANGED <<isInitialized, announce>>
       ELSE /\ isInitialized' = [isInitialized EXCEPT ![m] = TRUE]
            /\ announce' = [announce EXCEPT ![m] = TRUE]
            /\ fired' = <<CountNote(peers[m])>>
            /\ lastCount' = [lastCount EXCEPT ![m] = Count(peers[m])]
  /\ sent' = <<>>
  /\ last' = Task("call", "joinMeeting")
  /\ UNCHANGED <<peers, pcs, localStream, leave, subscribed>>

UserJoinedMsg(m) ==
  [Msg("user-joined", m, "") EXCEPT
     !.audioEnabled = isAudioEnabled(localStream[m]),
     !.videoEnabled = isVideoEnabled(localStream[m])]

\* the callback of joinMeeting's setTimeout(..., 1000): an async function that
\* awaits the send outside any try block and then logs the result, so a send
\* that rejects leaves the callback as an unhandled rejection.  Nothing else
\* follows the await, so the send and its settlement are one step.
AnnounceJoin(m) ==
  /\ announce[m]
  /\ announce' = [announce EXCEPT ![m] = FALSE]
  /\ sent' = <<UserJoinedMsg(m)>>
  /\ Quiet
  /\ \E rejected \in BOOLEAN :
       last' = [Task("timeout", "announceJoin") EXCEPT !.threw = rejected]
  /\ UNCHANGED <<peers, pcs, localStream, isInitialized, leave, subscribed>>

MediaStateMsg(m, audioEnabled, videoEnabled, screen) ==
  [Msg("media-state-changed", m, "") EXCEPT
     !.audioEnabled = audioEnabled, !.videoEnabled = videoEnabled,
     !.isScreenSharing = screen]

\* broadcastMediaState
broadcastMediaState(m, audioEnabled, videoEnabled, screen) ==
  sent' = <<MediaStateMsg(m, audioEnabled, videoEnabled, screen)>>

SetAudio(s, enabled) ==
  IF s.audio = "none" THEN s
  ELSE [s EXCEPT !.audio = IF enabled THEN "on" ELSE "off"]

toggleAudioRenegotiating(m, enabled) ==
  /\ InCall(m)
  /\ IF localStream[m].held
       THEN /\ localStream' = [localStream EXCEPT ![m] = SetAudio(@, enabled)]
            /\ sent' = <<MediaStateMsg(m, enabled, isVideoEnabled(localStream[m]),
                                       isScreenSharing(localStream[m]))>>
                       \o [k \in 1..MapSize(peers[m]) |-> Msg("offer", m, "")]
       ELSE sent' = <<>> /\ UNCHANGED localStream
  /\ Quiet
  /\ last' = Task("call", "toggleAudio")
  /\ UNCHANGED <<peers, pcs, isInitialized, announce, leave, subscribed>>

\* toggleAudio: only the tracks' enabled flag changes, then one broadcast;
\* without a local stream nothing happens
toggleAudio(m, enabled) ==
  /\ InCall(m)
  /\ IF localStream[m].held
       THEN /\ localStream' = [localStream EXCEPT ![m] = SetAudio(@, enabled)]
            /\ broadcastMediaState(m, enabled, isVideoEnabled(localStream[m]),
                                   isScreenSharing(localStream[m]))
       ELSE sent' = <<>> /\ UNCHANGED localStream
  /\ Quiet
  /\ last' = Task("call", "toggleAudio")
  /\ UNCHANGED <<peers, pcs, isInitialized, announce, leave, subscribed>>

\* the camera/microphone part of initializeMedia when getUserMedia settles
Reacquire(m, video, audio, outcome) ==
  /\ (~video /\ ~audio) => outcome = "error"
  /\ IF outcome = "error"
       THEN UNCHANGED <<localStream, pcs>>
       ELSE /\ localStream' = [localStream EXCEPT ![m] = Acquired(video, audio)]
            /\ updatePeerConnectionsWithStream(m, Acquired(video, audio))

ShareScreenRenegotiating(m, handler) ==
  /\ InCall(m)
  /\ ~screenTrack[m].live
  /\ screenTrack' = [screenTrack EXCEPT ![m] = [live |-> TRUE, onended |-> handler]]
  /\ pcs' = [pcs EXCEPT ![m] =
               [i \in 1..Len(@) |->
                  IF (\E r \in peers[m] : r.peer = i) /\ "video" \in @[i].senders
                    THEN [@[i] EXCEPT !.senders = (@ \ {"video"}) \cup {"screen"},
                                      !.localDescription = "offer",
                                      !.remoteDescription = "none"]
                    ELSE @[i]]]
  /\ sent' = <<MediaStateMsg(m, isAudioEnabled(localStream[m]), TRUE, TRUE)>>
             \o [k \in 1..MapSize(peers[m]) |-> Msg("offer", m, "")]
  /\ Quiet
  /\ UNCHANGED <<peers, localStream, isInitialized, announce, leave, subscribed>>

\* startScreenShare once getDisplayMedia has resolved: the video sender of every
\* transport in the table carries the screen track, the state is broadcast
\* (audioEnabled as it is, videoEnabled and isScreenSharing true), and the
\* manager's own onended handler is installed on the screen track.
\* this.localStream is not assigned.
ShareScreen(m, handler) ==
  /\ InCall(m)
  /\ ~screenTrack[m].live
  /\ screenTrack' = [screenTrack EXCEPT ![m] = [live |-> TRUE, onended |-> handler]]
  /\ pcs' = [pcs EXCEPT ![m] =
               [i \in 1..Len(@) |->
                  IF (\E r \in peers[m] : r.peer = i) /\ "video" \in @[i].senders
                    THEN [@[i] EXCEPT !.senders = (@ \ {"video"}) \cup {"screen"}]
                    ELSE @[i]]]
  /\ broadcastMediaState(m, isAudioEnabled(localStream[m]), TRUE, TRUE)
  /\ Quiet
  /\ UNCHANGED <<peers, localStream, isInitialized, announce, leave, subscribed>>

(* startScreenShare called on the manager directly *)
startScreenShare(m) ==
  /\ ShareScreen(m, "manager")
  /\ last' = Task("call", "startScreenShare")

\* MeetingRoom.toggleScreenShare while not sharing: it awaits startScreenShare
\* and then assigns its own handler to the screen track's onended, replacing
\* the one the manager installed
toggleScreenShare(m) ==
  /\ ShareScreen(m, "ui")
  /\ last' = Task("call", "toggleScreenShare")

\* the screen track's 'ended' event (the user stops sharing from the browser).
\* The manager's handler is stopScreenShare: initializeMedia(true,
\* isAudioEnabled()), then the camera track on every video sender, then a
\* broadcast with isScreenSharing false; a failed acquisition is caught and
\* nothing is broadcast.  The UI's handler calls initializeMedia(!isCameraOff,
\* !isMuted) and nothing else, and catches nothing.
ScreenTrackEnded(m, isCameraOff, isMuted, outcome) ==
  /\ screenTrack[m].live
  /\ screenTrack' = [screenTrack EXCEPT ![m].live = FALSE]
  /\ IF screenTrack[m].onended = "manager"
       THEN /\ Reacquire(m, TRUE, isAudioEnabled(localStream[m]), outcome)
            /\ IF outcome = "error"
                 THEN sent' = <<>>
                 ELSE broadcastMediaState(m, isAudioEnabled(localStream'[m]),
                                          isVideoEnabled(localStream'[m]), FALSE)
       ELSE /\ Reacquire(m, ~isCameraOff, ~isMuted, outcome)
            /\ sent' = <<>>
  /\ Quiet
  /\ last' = [Task("ended", "onended") EXCEPT
                !.calls = getUserMediaCalls(outcome),
                !.resolved = getUserMediaResolved(outcome),
                !.threw = (screenTrack[m].onended = "ui" /\ Rethrown(outcome))]
  /\ UNCHANGED <<peers, isInitialized, announce, leave, subscribed>>

\* leaveMeeting up to the await of the user-left send
leaveMeeting(m) ==
  /\ InCall(m)
  /\ leave' = [leave EXCEPT ![m] = "announced"]
  /\ sent' = <<Msg("user-left", m, "")>>
  /\ Quiet
  /\ last' = Task("call", "leaveMeeting")
  /\ UNCHANGED <<peers, pcs, localStream, isInitialized, announce, subscribed>>

\* cleanup that leaves the table as it is
leaveCleanupKeepingRecords(m) ==
  /\ leave[m] = "announced"
  /\ leave' = [leave EXCEPT ![m] = "done"]
  /\ subscribed' = [subscribed EXCEPT ![m] = FALSE]
  /\ sent' = <<>> /\ Quiet
  /\ last' = Task("continuation", "leaveCleanup")
  /\ UNCHANGED <<peers, pcs, localStream, isInitialized, announce>>

\* leaveMeeting after the send settled (either way): every transport in the
\* table is closed, the table is cleared, the channel is unsubscribed
leaveCleanup(m) ==
  /\ leave[m] = "announced"
  /\ leave' = [leave EXCEPT ![m] = "done"]
  /\ pcs' = [pcs EXCEPT ![m] =
               [i \in 1..Len(@) |->
                  IF \E r \in peers[m] : r.peer = i
                    THEN [@[i] EXCEPT !.connectionState = "closed"]
                    ELSE @[i]]]
  /\ peers' = [peers EXCEPT ![m] = {}]
  /\ subscribed' = [subscribed EXCEPT ![m] = FALSE]
  /\ sent' = <<>> /\ Quiet
  /\ last' = Task("continuation", "leaveCleanup")
  /\ UNCHANGED <<localStream, isInitialized, announce>>

----------------------------------------------------------------------------
(* One manager and an arbitrary channel: any broadcast may be delivered,  *)
(* any number of times, in any order, with any sender and target.          *)

MediaStates == {<<FALSE, FALSE, TRUE>>}

Inbound(kind) ==
  IF kind \in {"user-joined", "user-left"}
    THEN {Msg(kind, f, "") : f \in Ids}
  ELSE IF kind \in {"offer", "answer"}
    THEN {[Msg(kind, f, t) EXCEPT !.tid = 1] : f \in Ids, t \in Ids}
  ELSE IF kind = "ice-candidate"
    THEN {Msg(kind, f, t) : f \in Ids, t \in Ids}
  ELSE IF kind = "media-state-changed"
    THEN {MediaStateMsg(f, s[1], s[2], s[3]) : f \in Ids, s \in MediaStates}
  ELSE {[Msg(kind, f, "") EXCEPT !.raised = r] : f \in Ids, r \in BOOLEAN}

Recv(kind) == \E data \in Inbound(kind) : Deliver(Local, data) /\ UNCHANGED <<net, screenTrack, admission>>

RecvUserJoined == Recv("user-joined")
RecvUserLeft == Recv("user-left")
RecvOffer == Recv("offer")
RecvAnswer == Recv("answer")
RecvIceCandidate == Recv("ice-candidate")
RecvMediaState == Recv("media-state-changed")
RecvHandRaised == Recv("hand-raised")

ContinueCreateOffer ==
  \E i \in 1..MaxTransports : ResumeCreateOffer(Local, i) /\ UNCHANGED <<net, screenTrack, admission>>

ContinueSendOffer ==
  \E i \in 1..MaxTransports : ResumeSendOffer(Local, i) /\ UNCHANGED <<net, screenTrack, admission>>

ContinueSetRemoteOffer ==
  \E i \in 1..MaxTransports : ResumeSetRemoteOffer(Local, i) /\ UNCHANGED <<net, screenTrack, admission>>

Continue == ContinueCreateOffer \/ ContinueSendOffer \/ ContinueSetRemoteOffer

Session ==
  \/ joinMeeting(Local) /\ UNCHANGED <<net, screenTrack, admission>>
  \/ AnnounceJoin(Local) /\ UNCHANGED <<net, screenTrack, admission>>
  \/ leaveMeeting(Local) /\ UNCHANGED <<net, screenTrack, admission>>
  \/ leaveCleanup(Local) /\ UNCHANGED <<net, screenTrack, admission>>

\* signaling and session: every broadcast kind, the continuations, join and
\* leave, and a transport reporting 'closed'
Next ==
  \/ RecvUserJoined \/ RecvUserLeft \/ RecvOffer \/ RecvAnswer
  \/ RecvIceCandidate \/ RecvMediaState
  \/ Continue
  \/ Session
  \/ \E i \in 1..MaxTransports : TransportClosed(Local, i) /\ UNCHANGED <<net, screenTrack, admission>>

Spec == Init /\ [][Next]_vars

\* connectivity: negotiation, the transport's connection states and the grace timer
GraceNext ==
  \/ RecvUserJoined \/ RecvUserLeft \/ RecvAnswer
  \/ ContinueCreateOffer \/ ContinueSendOffer
  \/ \E i \in 1..MaxTransports : TransportConnecting(Local, i) /\ UNCHANGED <<net, screenTrack, admission>>
  \/ \E i \in 1..MaxTransports : TransportConnected(Local, i) /\ UNCHANGED <<net, screenTrack, admission>>
  \/ \E i \in 1..MaxTransports : TransportDisconnected(Local, i) /\ UNCHANGED <<net, screenTrack, admission>>
  \/ \E i \in 1..MaxTransports : TransportFailed(Local, i) /\ UNCHANGED <<net, screenTrack, admission>>
  \/ \E i \in 1..MaxTransports : GraceTimerFires(Local, i) /\ UNCHANGED <<net, screenTrack, admission>>

SpecGrace == Init /\ [][GraceNext]_vars

\* the same, with the timers of the event loop running: a pending grace timer
\* does fire.  Nothing obliges the network or the other participants to act.
SpecGraceFair ==
  /\ SpecGrace
  /\ WF_vars(\E i \in 1..MaxTransports :
               GraceTimerFires(Local, i) /\ UNCHANGED <<net, screenTrack, admission>>)

\* local media: acquisition and mute/unmute, with peers in the table
MediaNext ==
  \/ RecvUserJoined \/ RecvOffer
  \/ Continue
  \/ \E v, a \in BOOLEAN, o \in {"primary", "fallback", "error"} :
       initializeMedia(Local, v, a, o) /\ UNCHANGED <<net, screenTrack, admission>>
  \/ \E e \in BOOLEAN : toggleAudio(Local, e) /\ UNCHANGED <<net, screenTrack, admission>>

SpecMedia == Init /\ [][MediaNext]_vars

\* presence: joining, peers announcing themselves, media-state and hand-raise
\* announcements
PresenceNext ==
  \/ RecvUserJoined \/ RecvOffer \/ RecvMediaState \/ RecvHandRaised
  \/ Continue
  \/ joinMeeting(Local) /\ UNCHANGED <<net, screenTrack, admission>>
  \/ AnnounceJoin(Local) /\ UNCHANGED <<net, screenTrack, admission>>

SpecPresence == Init /\ [][PresenceNext]_vars

\* screen sharing: acquisition of the camera, peers joining, the start of a
\* screen share by the manager alone or through the UI, and its external end
ScreenNext ==
  \/ RecvUserJoined
  \/ ContinueCreateOffer \/ ContinueSendOffer
  \/ \E v, a \in BOOLEAN, o \in {"primary", "fallback", "error"} :
       initializeMedia(Local, v, a, o) /\ UNCHANGED <<net, screenTrack, admission>>
  \/ startScreenShare(Local) /\ UNCHANGED <<net, admission>>
  \/ toggleScreenShare(Local) /\ UNCHANGED <<net, admission>>
  \/ \E c, u \in BOOLEAN, o \in {"primary", "fallback", "error"} :
       ScreenTrackEnded(Local, c, u, o) /\ UNCHANGED <<net, admission>>

SpecScreen == Init /\ [][ScreenNext]_vars

\* transport events of answering connections: inbound offers, connection-state
\* changes, 'failed' and remote tracks
TrackNext ==
  \/ RecvOffer
  \/ ContinueSetRemoteOffer
  \/ \E i \in 1..MaxTransports : TransportConnecting(Local, i) /\ UNCHANGED <<net, screenTrack, admission>>
  \/ \E i \in 1..MaxTransports : TransportConnected(Local, i) /\ UNCHANGED <<net, screenTrack, admission>>
  \/ \E i \in 1..MaxTransports : TransportDisconnected(Local, i) /\ UNCHANGED <<net, screenTrack, admission>>
  \/ \E i \in 1..MaxTransports : TransportFailed(Local, i) /\ UNCHANGED <<net, screenTrack, admission>>
  \/ \E i \in 1..MaxTransports : OnTrack(Local, i) /\ UNCHANGED <<net, screenTrack, admission>>

SpecTrack == Init /\ [][TrackNext]_vars

\* addressing: the three targeted broadcast kinds, with and without a record
\* for their sender
AddressNext ==
  \/ RecvUserJoined \/ RecvOffer \/ RecvAnswer \/ RecvIceCandidate
  \/ Continue

SpecAddress == Init /\ [][AddressNext]_vars

\* acquisition with track operations that may throw: peers joining, and
\* initializeMedia with every outcome of its two try blocks
AcquireNext ==
  \/ RecvUserJoined
  \/ ContinueCreateOffer \/ ContinueSendOffer
  \/ \E v, a \in BOOLEAN,
        o \in {"primary", "fallback", "error", "reattach", "reattach-error"} :
       initializeMedia(Local, v, a, o) /\ UNCHANGED <<net, screenTrack, admission>>

SpecAcquire == Init /\ [][AcquireNext]_vars

\* leaving: peers joining and answering, connectivity and the grace timer,
\* and leaveMeeting
LeaveNext ==
  \/ RecvUserJoined \/ RecvAnswer
  \/ ContinueCreateOffer \/ ContinueSendOffer
  \/ \E i \in 1..MaxTransports : TransportConnecting(Local, i) /\ UNCHANGED <<net, screenTrack, admission>>
  \/ \E i \in 1..MaxTransports : TransportConnected(Local, i) /\ UNCHANGED <<net, screenTrack, admission>>
  \/ \E i \in 1..MaxTransports : TransportDisconnected(Local, i) /\ UNCHANGED <<net, screenTrack, admission>>
  \/ \E i \in 1..MaxTransports : GraceTimerFires(Local, i) /\ UNCHANGED <<net, screenTrack, admission>>
  \/ leaveMeeting(Local) /\ UNCHANGED <<net, screenTrack, admission>>
  \/ leaveCleanup(Local) /\ UNCHANGED <<net, screenTrack, admission>>

SpecLeave == Init /\ [][LeaveNext]_vars

\* media state while sharing: acquisition, mute/unmute, and the start and end
\* of a screen share
ShareNext ==
  \/ \E v, a \in BOOLEAN, o \in {"primary", "fallback", "error"} :
       initializeMedia(Local, v, a, o) /\ UNCHANGED <<net, screenTrack, admission>>
  \/ \E e \in BOOLEAN : toggleAudio(Local, e) /\ UNCHANGED <<net, screenTrack, admission>>
  \/ startScreenShare(Local) /\ UNCHANGED <<net, admission>>
  \/ toggleScreenShare(Local) /\ UNCHANGED <<net, admission>>
  \/ \E c, u \in BOOLEAN, o \in {"primary", "fallback", "error"} :
       ScreenTrackEnded(Local, c, u, o) /\ UNCHANGED <<net, admission>>

SpecShare == Init /\ [][ShareNext]_vars

----------------------------------------------------------------------------
(* The waiting room: hosts decide on pending rows, the database publishes  *)
(* each UPDATE to the listeners whose filter the new row passes, and the   *)
(* local client proceeds to the meeting when its listener sees an admitted *)
(* row.                                                                     *)

\* the filter of the local client's subscription: `name=eq.${name}`
PassesFilter(row) == RowName(row) = RowName(OwnRow)

\* the UPDATE event for a row, queued for the local client while it listens
Published(row, admitted, left_at) ==
  IF admission.phase = "waiting" /\ PassesFilter(row)
    THEN {[id |-> row, admitted |-> admitted, left_at |-> left_at]}
    ELSE {}

\* the pending list of a meeting's host: the rows of that meeting whose
\* admitted and left_at are null
Pending(meetingId, row) ==
  /\ RowMeeting(row) = meetingId
  /\ admission.admitted[row] = "null" /\ ~admission.left_at[row]

ManagerUntouched ==
  /\ sent' = <<>> /\ Quiet
  /\ UNCHANGED <<peers, pcs, localStream, isInitialized, announce, leave, subscribed,
                 net, screenTrack>>

\* AdmissionPanel.admitParticipant: update({admitted: true}).eq('id', row)
admitParticipant(meetingId, row) ==
  /\ Pending(meetingId, row)
  /\ admission' = [admission EXCEPT !.admitted[row] = "true",
                                    !.events = @ \cup Published(row, TRUE, FALSE)]
  /\ last' = Task("call", "admitParticipant")
  /\ ManagerUntouched

\* AdmissionPanel.rejectParticipant: update({left_at: now}).eq('id', row)
rejectParticipant(meetingId, row) ==
  /\ Pending(meetingId, row)
  /\ admission' = [admission EXCEPT !.left_at[row] = TRUE,
                                    !.events = @ \cup Published(row, FALSE, TRUE)]
  /\ last' = Task("call", "rejectParticipant")
  /\ ManagerUntouched

\* the postgres_changes listener of initializeMeeting: an admitted row lets the
\* client through (proceedToMeeting constructs the manager and awaits
\* initializeMedia), a row with left_at sends it away; both unsubscribe
admissionUpdate(e) ==
  /\ admission.phase = "waiting"
  /\ e \in admission.events
  /\ admission' = [admission EXCEPT
        !.phase = IF e.admitted THEN "admitted" ELSE IF e.left_at THEN "rejected" ELSE @,
        !.events = IF e.admitted \/ e.left_at THEN {} ELSE @ \ {e}]
  /\ last' = Task("postgres_changes", "admissionUpdate")
  /\ ManagerUntouched

\* proceedToMeeting when `await manager.initializeMedia(true, true)` settles: a
\* thrown error is caught and the client navigates away
proceedToMeeting(outcome) ==
  /\ admission.phase = "admitted"
  /\ initializeMedia(Local, TRUE, TRUE, outcome)
  /\ admission' = [admission EXCEPT
        !.phase = IF Rethrown(outcome) THEN "aborted" ELSE "acquired"]
  /\ UNCHANGED <<net, screenTrack>>

\* proceedToMeeting resumed: `await manager.joinMeeting()`
proceedToJoin ==
  /\ admission.phase = "acquired"
  /\ joinMeeting(Local)
  /\ admission' = [admission EXCEPT !.phase = "joined"]
  /\ UNCHANGED <<net, screenTrack>>

AdmissionNext ==
  \/ \E meetingId \in Meetings, row \in RowIds : admitParticipant(meetingId, row)
  \/ \E meetingId \in Meetings, row \in RowIds : rejectParticipant(meetingId, row)
  \/ \E e \in admission.events : admissionUpdate(e)
  \/ \E o \in {"primary", "fallback", "error"} : proceedToMeeting(o)
  \/ proceedToJoin
  \/ AnnounceJoin(Local) /\ UNCHANGED <<net, screenTrack, admission>>

SpecAdmission == Init /\ [][AdmissionNext]_vars

----------------------------------------------------------------------------
(* Two managers on one channel.  A broadcast reaches every other          *)
(* subscriber (the channel does not echo to its sender); delivery order is *)
(* free.                                                                    *)

Route(m, msgs) ==
  {[rcpt |-> r, data |-> msgs[k]] :
     r \in {x \in Managers \ {m} : subscribed[x]}, k \in 1..Len(msgs)}

Emit(m) == net' = net \cup Route(m, sent') /\ UNCHANGED <<screenTrack, admission>>

MeshRecv(kind) ==
  \E e \in net :
    /\ e.data.kind = kind
    /\ Deliver(e.rcpt, e.data)
    /\ net' = (net \ {e}) \cup Route(e.rcpt, sent')
    /\ UNCHANGED <<screenTrack, admission>>

MeshJoin == \E m \in Managers : ~isInitialized[m] /\ joinMeeting(m) /\ Emit(m)

MeshAnnounce == \E m \in Managers : AnnounceJoin(m) /\ Emit(m)

MeshCreateOffer ==
  \E m \in Managers, i \in 1..MaxTransports : ResumeCreateOffer(m, i) /\ Emit(m)

MeshSendOffer ==
  \E m \in Managers, i \in 1..MaxTransports : ResumeSendOffer(m, i) /\ Emit(m)

MeshSetRemoteOffer ==
  \E m \in Managers, i \in 1..MaxTransports : ResumeSetRemoteOffer(m, i) /\ Emit(m)

MeshConnecting ==
  \E m \in Managers, i \in 1..MaxTransports : TransportConnecting(m, i) /\ Emit(m)

MeshConnected ==
  \E m \in Managers, i \in 1..MaxTransports : TransportConnected(m, i) /\ Emit(m)

MeshNext ==
  \/ MeshJoin \/ MeshAnnounce
  \/ MeshRecv("user-joined") \/ MeshRecv("offer") \/ MeshRecv("answer")
  \/ MeshCreateOffer \/ MeshSendOffer \/ MeshSetRemoteOffer
  \/ MeshConnecting \/ MeshConnected

SpecMesh == Init /\ [][MeshNext]_vars

\* Participants arriving one after the other: at first one manager has been
\* constructed, and the page of the other constructs its manager at any later
\* moment.  A broadcast sent before that does not reach it.
InitStaggered ==
  /\ peers = [m \in Managers |-> {}]
  /\ pcs = [m \in Managers |-> <<>>]
  /\ localStream = [m \in Managers |-> NoStream]
  /\ isInitialized = [m \in Managers |-> FALSE]
  /\ announce = [m \in Managers |-> FALSE]
  /\ leave = [m \in Managers |-> "no"]
  /\ \E first \in Managers : subscribed = [m \in Managers |-> m = first]
  /\ lastCount = [m \in Managers |-> 0]
  /\ net = {}
  /\ screenTrack = [m \in Managers |-> NoScreenTrack]
  /\ admission = NoDecision
  /\ sent = <<>>
  /\ fired = <<>>
  /\ last = Task("call", "constructor")

\* new WebRTCManager(...): the constructor subscribes the channel
Construct ==
  \E m \in Managers :
    /\ ~subscribed[m]
    /\ subscribed' = [subscribed EXCEPT ![m] = TRUE]
    /\ sent' = <<>> /\ Quiet
    /\ last' = Task("call", "constructor")
    /\ UNCHANGED <<peers, pcs, localStream, isInitialized, announce, leave, net,
                   screenTrack, admission>>

\* joinMeeting on a constructed manager
ConvergeJoin ==
  \E m \in Managers : subscribed[m] /\ ~isInitialized[m] /\ joinMeeting(m) /\ Emit(m)

ConvergeNext ==
  \/ Construct \/ ConvergeJoin \/ MeshAnnounce
  \/ MeshRecv("user-joined") \/ MeshRecv("offer") \/ MeshRecv("answer")
  \/ MeshCreateOffer \/ MeshSendOffer \/ MeshSetRemoteOffer
  \/ MeshConnecting \/ MeshConnected

SpecConverge == InitStaggered /\ [][ConvergeNext]_vars

----------------------------------------------------------------------------
(* The claims *)

Records(m, id) == {r \in peers[m] : r.peerId = id}

PeerLeftNotes(notes, id) ==
  {k \in 1..Len(notes) : notes[k].hook = "peerLeft" /\ notes[k].peerId = id}

Kinds(msgs) == {msgs[k].kind : k \in 1..Len(msgs)}

\* manager m has constructed exactly one RTCPeerConnection for peer id
SoleTransport(m, id) ==
  Cardinality({i \in 1..Len(pcs[m]) : pcs[m][i].peerId = id}) = 1

\* C1: in every reachable state the peer table holds at most one record per
\* remote participant id, whatever user-joined, user-left, offer, answer and
\* ICE messages were delivered, duplicated or reordered.
C1_OneRecordPerPeer ==
  \A m \in Managers, id \in Ids : Cardinality(Records(m, id)) <= 1

\* two transports were constructed for the same peer and it has a record
C1_Witness ==
  \E i, j \in 1..Len(pcs[Local]) :
    /\ i # j
    /\ pcs[Local][i].peerId = "b" /\ pcs[Local][j].peerId = "b"
    /\ MapHas(peers[Local], "b")

\* C2: a user-joined announcement for an id that already has a record creates
\* no new record and no new transport (and so sends no second offer).
C2_JoinIdempotent ==
  [][\A data \in Inbound("user-joined") :
       (MapHas(peers[Local], data.from) /\ handleUserJoined(Local, data))
         => (peers' = peers /\ pcs' = pcs)]_vars

\* C3: the peer table never holds a record keyed by the manager's own id.
C3_NoSelfRecord == \A m \in Managers : ~MapHas(peers[m], m)

\* C4: whenever no handler is mid-execution, the count last given to the
\* participant-count notification is the size of the peer table plus one.
C4_CountIsTablePlusOne ==
  \A m \in Managers :
    (Idle(m) /\ leave[m] # "announced" /\ lastCount[m] # 0)
      => lastCount[m] = MapSize(peers[m]) + 1

\* C5: a user-left announcement for a known peer removes its record and fires
\* exactly one peer-left notification; processed again, it finds no record,
\* changes nothing and notifies nothing.
C5_UserLeftOnce ==
  [][\A data \in Inbound("user-left") :
       handleUserLeft(Local, data) =>
         IF MapHas(peers[Local], data.from)
           THEN /\ ~MapHas(peers'[Local], data.from)
                /\ Cardinality(PeerLeftNotes(fired', data.from)) = 1
           ELSE /\ fired' = <<>>
                /\ UNCHANGED <<peers, pcs, lastCount>>]_vars

\* a user-left was processed for a peer whose record an earlier one had removed
C5_Witness ==
  /\ last.op = "handleUserLeft"
  /\ fired = <<>>
  /\ ~MapHas(peers[Local], "b")
  /\ \E i \in 1..Len(pcs[Local]) : pcs[Local][i].peerId = "b" /\ Closed(pcs[Local][i])

\* C6: on every removal path the peer-left notification is fired only for a
\* peer id that has a record at that moment.  Stated for a peer the manager
\* has built a single transport for, so that a violation owes nothing to a
\* transport replaced by a repeated join.
C6_PeerLeftOnlyForRecord ==
  [][\A k \in 1..Len(fired') :
       (fired'[k].hook = "peerLeft" /\ SoleTransport(Local, fired'[k].peerId))
         => MapHas(peers[Local], fired'[k].peerId)]_vars

\* C7: when a transport that went 'disconnected' is 'connected' again by the
\* time its grace timer fires, the expiry removes no record and fires no
\* notification.
C7_ReconnectWithinGrace ==
  [][\A i \in 1..MaxTransports :
       (GraceTimerFires(Local, i) /\ pcs[Local][i].connectionState = "connected")
         => (peers' = peers /\ fired' = <<>> /\ lastCount' = lastCount)]_vars

\* the grace timer of the only transport fired after it had reconnected, and
\* the peer is still in the table
C7_Witness ==
  /\ last.op = "graceTimer"
  /\ fired = <<>>
  /\ Len(pcs[Local]) = 1
  /\ pcs[Local][1].connectionState = "connected"
  /\ pcs[Local][1].timers = 0
  /\ MapHas(peers[Local], pcs[Local][1].peerId)

\* C8: a disconnection that outlasts the grace window makes the peer depart
\* exactly once: a grace expiry that reports the departure finds the peer still
\* in the table, also after earlier disconnect/reconnect flickers of the one
\* transport the manager has built for that peer.
C8_GraceDepartureOnce ==
  [][\A i \in 1..MaxTransports :
       (/\ GraceTimerFires(Local, i)
        /\ pcs[Local][i].connectionState = "disconnected"
        /\ SoleTransport(Local, pcs[Local][i].peerId))
         => MapHas(peers[Local], pcs[Local][i].peerId)]_vars

\* C9: when both managers originated an offer for each other and every message
\* has been delivered and handled, exactly one of the two transports their
\* tables reference is the offerer, and the two have completed one offer/answer
\* exchange with each other.
Settled ==
  /\ net = {}
  /\ \A m \in Managers : Idle(m) /\ isInitialized[m] /\ ~announce[m]

Glare ==
  \A m \in Managers :
    \E i \in 1..Len(pcs[m]) : pcs[m][i].isInitiator /\ pcs[m][i].localDescription = "offer"

C9_GlareResolved ==
  (Settled /\ Glare) =>
    /\ MapHas(peers["a"], "b") /\ MapHas(peers["b"], "a")
    /\ LET ia == MapGet(peers["a"], "b").peer
           ib == MapGet(peers["b"], "a").peer
       IN /\ pcs["a"][ia].isInitiator # pcs["b"][ib].isInitiator
          /\ Negotiated(pcs["a"][ia]) /\ pcs["a"][ia].remote = <<"b", ib>>
          /\ Negotiated(pcs["b"][ib]) /\ pcs["b"][ib].remote = <<"a", ia>>

\* C10 as stated: every toggleAudio call sends exactly one media-state
\* broadcast carrying the requested audio flag, no offer and no answer, and
\* creates or removes no record or transport.
C10_ToggleAudioAlwaysBroadcasts ==
  [][\A enabled \in BOOLEAN :
       toggleAudio(Local, enabled) =>
         /\ Len(sent') = 1
         /\ sent'[1].kind = "media-state-changed"
         /\ sent'[1].audioEnabled = enabled
         /\ peers' = peers /\ pcs' = pcs]_vars

\* C10 as amended: toggleAudio never sends an offer or an answer and creates
\* or removes no record or transport; with a local stream held it sends
\* exactly one media-state broadcast carrying the requested audio flag, and
\* without one it sends nothing.
C10_ToggleAudioNoRenegotiation ==
  [][\A enabled \in BOOLEAN :
       toggleAudio(Local, enabled) =>
         /\ peers' = peers /\ pcs' = pcs
         /\ Kinds(sent') \cap {"offer", "answer"} = {}
         /\ IF localStream[Local].held
              THEN /\ Len(sent') = 1
                   /\ sent'[1].kind = "media-state-changed"
                   /\ sent'[1].from = Local
                   /\ sent'[1].audioEnabled = enabled
              ELSE sent' = <<>>]_vars

\* the microphone was unmuted again with a peer in the table
C10_Witness ==
  /\ last.op = "toggleAudio"
  /\ Len(sent) = 1 /\ sent[1].kind = "media-state-changed" /\ sent[1].audioEnabled
  /\ localStream[Local].audio = "on"
  /\ MapHas(peers[Local], "b")

\* C12: a user-joined announcement from a remote id, received with an empty
\* peer table, creates exactly one record, for that id, on a transport built as
\* initiator, and sends nothing yet; the resumed handler sends exactly one
\* offer, addressed to that id; when the handler finishes with that one record
\* in the table the notified count is 2; and handling an inbound offer sends
\* an answer and never an offer.
C12_FirstJoinOffers ==
  [][/\ \A data \in Inbound("user-joined") :
          (handleUserJoined(Local, data) /\ data.from # Local /\ peers[Local] = {})
            => /\ MapSize(peers'[Local]) = 1
               /\ MapHas(peers'[Local], data.from)
               /\ pcs'[Local][MapGet(peers'[Local], data.from).peer].isInitiator
               /\ Len(pcs'[Local]) = Len(pcs[Local]) + 1
               /\ sent' = <<>>
     /\ \A i \in 1..MaxTransports :
          (ResumeCreateOffer(Local, i) /\ ~Closed(pcs[Local][i]))
            => /\ Len(sent') = 1
               /\ sent'[1].kind = "offer"
               /\ sent'[1].from = Local
               /\ sent'[1].to = pcs[Local][i].peerId
     /\ \A i \in 1..MaxTransports :
          (ResumeSendOffer(Local, i) /\ MapSize(peers[Local]) = 1)
            => /\ sent' = <<>>
               /\ lastCount'[Local] = 2
     /\ \A i \in 1..MaxTransports :
          ResumeSetRemoteOffer(Local, i) => "offer" \notin Kinds(sent')
     /\ \A data \in Inbound("offer") : handleOffer(Local, data) => sent' = <<>>]_vars

\* the manager had joined alone (count 1), received the announcement of b and
\* its handler has finished: one record, one transport, count 2
C12_Witness ==
  /\ last.op = "sendOffer"
  /\ isInitialized[Local]
  /\ Len(pcs[Local]) = 1
  /\ pcs[Local][1].isInitiator /\ pcs[Local][1].localDescription = "offer"
  /\ peers[Local] # {} /\ MapHas(peers[Local], "b")
  /\ lastCount[Local] = 2

\* C13: a media-state announcement whose sender has no record in the peer
\* table is ignored: the table and the transports are unchanged, no record is
\* created, nothing is sent and no notification fires.
C13_MediaStateOfUnknownIgnored ==
  [][\A data \in Inbound("media-state-changed") :
       (handleMediaStateChanged(Local, data) /\ ~MapHas(peers[Local], data.from))
         => /\ peers' = peers /\ pcs' = pcs
            /\ fired' = <<>> /\ sent' = <<>>
            /\ lastCount' = lastCount]_vars

\* a media-state announcement was handled after the manager had joined, with
\* no record for b in the table, and it surfaced nothing
C13_Witness ==
  /\ last.op = "handleMediaStateChanged"
  /\ isInitialized[Local]
  /\ ~MapHas(peers[Local], "b")
  /\ fired = <<>>

\* C14: a hand-raise announcement from a remote participant fires exactly the
\* hand-raised notification, for that participant and with the announced flag,
\* whether or not the participant has a record; one whose sender is the local
\* id fires nothing; in both cases the peer table and the transports are
\* unchanged and nothing is sent.
C14_HandRaiseSurfaced ==
  [][\A data \in Inbound("hand-raised") :
       handleHandRaised(Local, data)
         => /\ peers' = peers /\ pcs' = pcs /\ sent' = <<>>
            /\ IF data.from # Local
                 THEN /\ Len(fired') = 1
                      /\ fired'[1].hook = "handRaised"
                      /\ fired'[1].peerId = data.from
                      /\ fired'[1].raised = data.raised
                 ELSE fired' = <<>>]_vars

\* a raised hand of b was surfaced while b had no record in the table
C14_Witness ==
  /\ last.op = "handleHandRaised"
  /\ Len(fired) = 1
  /\ fired[1].hook = "handRaised" /\ fired[1].peerId = "b" /\ fired[1].raised
  /\ ~MapHas(peers[Local], "b")

\* C15: delivering to a manager a message of any of the seven kinds whose
\* sender is the manager's own id changes nothing in its peer table, builds no
\* transport, sends no message and fires no notification.
MessageKinds ==
  {"user-joined", "user-left", "offer", "answer", "ice-candidate",
   "media-state-changed", "hand-raised"}

C15_SelfBroadcastsIgnored ==
  [][\A kind \in MessageKinds : \A data \in Inbound(kind) :
       (data.from = Local /\ Deliver(Local, data))
         => /\ peers' = peers /\ pcs' = pcs
            /\ sent' = <<>> /\ fired' = <<>>]_vars

\* C16: once leaveMeeting has run to its end, a handler that was suspended at
\* createOffer/setLocalDescription or at setRemoteDescription/createAnswer
\* resumes as a no-op: it sends nothing, creates no record and fires no
\* notification.
C16_ResumeAfterLeaveIsNoOp ==
  [][\A i \in 1..MaxTransports :
       (/\ leave[Local] = "done"
        /\ ResumeCreateOffer(Local, i) \/ ResumeSetRemoteOffer(Local, i))
         => /\ sent' = <<>> /\ fired' = <<>>
            /\ peers' = peers /\ lastCount' = lastCount]_vars

\* C17: when the record of peer X was removed while a handler for X was
\* suspended (and the manager has not left), the handler on resume sends no
\* offer or answer and fires no notification.
C17_ResumeRevalidatesPeer ==
  [][\A i \in 1..MaxTransports :
       (/\ leave[Local] = "no"
        /\ \/ ResumeCreateOffer(Local, i)
           \/ ResumeSendOffer(Local, i)
           \/ ResumeSetRemoteOffer(Local, i)
        /\ ~MapHas(peers[Local], pcs[Local][i].peerId))
         => /\ sent' = <<>> /\ fired' = <<>>]_vars

\* C18: whenever the transport of a record becomes closed (by a user-left
\* announcement, by the local leaveMeeting, or by the transport reporting
\* 'closed'), the same step destroys the record and fires a peer-left
\* notification for that peer.
C18_ClosedMeansDeparted ==
  [][\A r \in peers[Local] :
       (~Closed(pcs[Local][r.peer]) /\ Closed(pcs'[Local][r.peer]))
         => /\ ~MapHas(peers'[Local], r.peerId)
            /\ PeerLeftNotes(fired', r.peerId) # {}]_vars

\* C19: a transport reporting 'failed' leaves the logical state untouched: the
\* peer table is unchanged (same records, same transports, same media flags),
\* no notification fires, nothing is sent, no transport is built or closed and
\* no grace timer is started.
C19_FailedKeepsRecord ==
  [][\A i \in 1..MaxTransports :
       TransportFailed(Local, i)
         => /\ peers' = peers
            /\ fired' = <<>> /\ sent' = <<>>
            /\ lastCount' = lastCount
            /\ Len(pcs'[Local]) = Len(pcs[Local])
            /\ \A j \in 1..Len(pcs[Local]) :
                 /\ pcs'[Local][j].timers = pcs[Local][j].timers
                 /\ Closed(pcs'[Local][j]) = Closed(pcs[Local][j])]_vars

\* the transport of b's record has just reported 'failed' and the record is
\* still in the table
C19_Witness ==
  /\ last.op = "failed"
  /\ MapHas(peers[Local], "b")
  /\ pcs[Local][MapGet(peers[Local], "b").peer].connectionState = "failed"
  /\ fired = <<>>

\* C20: whenever a remote track (with its stream) arrives on a transport whose
\* peer has a record, the stream-available notification fires for that peer in
\* that step and the record's stream is set, whatever the connection state of
\* the transport is at that moment.
C20_StreamReportedOnTrack ==
  [][\A i \in 1..MaxTransports :
       (OnTrack(Local, i) /\ MapHas(peers[Local], pcs[Local][i].peerId))
         => /\ Len(fired') = 1
            /\ fired'[1].hook = "stream"
            /\ fired'[1].peerId = pcs[Local][i].peerId
            /\ MapGet(peers'[Local], pcs[Local][i].peerId).stream
            /\ MapSize(peers'[Local]) = MapSize(peers[Local])]_vars

\* a track of b arrived, and b's stream was reported, before b's transport
\* left the 'new' connection state
C20_Witness ==
  /\ last.op = "ontrack"
  /\ Len(fired) = 1 /\ fired[1].hook = "stream" /\ fired[1].peerId = "b"
  /\ MapHas(peers[Local], "b")
  /\ MapGet(peers[Local], "b").stream
  /\ pcs[Local][MapGet(peers[Local], "b").peer].connectionState = "new"

\* C11: when the screen track of a running screen share ends and the camera
\* is acquired again, every transport in the table carries the camera track
\* and no screen track, exactly one media-state broadcast is sent and it says
\* isScreenSharing = false, and no record is removed and no transport closed.
CameraRestored(m) ==
  \A r \in peers[m] :
    "video" \in pcs[m][r.peer].senders /\ "screen" \notin pcs[m][r.peer].senders

C11_ScreenShareEndRestoresCamera ==
  [][\A c, u \in BOOLEAN, o \in {"primary", "fallback"} :
       (ScreenTrackEnded(Local, c, u, o) /\ isVideoEnabled(localStream'[Local]))
         => /\ CameraRestored(Local)'
            /\ Len(sent') = 1
            /\ sent'[1].kind = "media-state-changed"
            /\ ~sent'[1].isScreenSharing
            /\ peers' = peers
            /\ \A i \in 1..Len(pcs[Local]) :
                 Closed(pcs'[Local][i]) = Closed(pcs[Local][i])]_vars

\* C21: every offer is created on a transport that carries exactly the tracks
\* of the local stream held at that moment, and no offer is created before the
\* local media the manager goes on to send has been attached: when the manager
\* acquires its first local stream, none of its transports has created an
\* offer yet.
C21_OfferAdvertisesCurrentMedia ==
  [][/\ \A i \in 1..MaxTransports :
          (ResumeCreateOffer(Local, i) /\ ~Closed(pcs[Local][i]))
            => pcs[Local][i].senders = Tracks(localStream[Local])
     /\ (~localStream[Local].held /\ localStream'[Local].held)
          => \A i \in 1..Len(pcs[Local]) : pcs[Local][i].localDescription # "offer"]_vars

\* C22: one initializeMedia call makes at most two getUserMedia requests: the
\* first with the quality constraints and, exactly when that one fails, a
\* second with the fallback constraints; the call leaves a stream held when
\* either request succeeded and throws to its caller exactly when both failed.
C22_AtMostTwoAttempts ==
  [][\A v, a \in BOOLEAN, o \in {"primary", "fallback", "error"} :
       initializeMedia(Local, v, a, o)
         => /\ Len(last'.calls) \in {1, 2}
            /\ last'.calls[1] = "quality"
            /\ (Len(last'.calls) = 2) <=> (o # "primary")
            /\ (Len(last'.calls) = 2) => last'.calls[2] = "fallback"
            /\ last'.threw <=> (o = "error")
            /\ ~last'.threw => (localStream'[Local].held /\ Tracks(localStream'[Local]) # {})]_vars

\* the quality request failed, the fallback request succeeded, and the stream
\* it returned is held and attached to b's transport
C22_Witness ==
  /\ last.op = "initializeMedia"
  /\ last.calls = <<"quality", "fallback">>
  /\ ~last.threw
  /\ localStream[Local].held
  /\ MapHas(peers[Local], "b")
  /\ pcs[Local][MapGet(peers[Local], "b").peer].senders = Tracks(localStream[Local])

\* C23: no step that hands a message to the channel, or that resumes after a
\* send has settled, ends with an uncaught error, whether the send resolved or
\* rejected; the join announce, the leave announce and the end of an offer's
\* send leave the peer table as it was and hand over nothing a second time.
C23_SendFailureNonFatal ==
  [][/\ (sent' # <<>> \/ last'.op \in {"sendOffer", "leaveCleanup"}) => ~last'.threw
     /\ AnnounceJoin(Local) => (peers' = peers /\ Len(sent') = 1)
     /\ leaveMeeting(Local) => (peers' = peers /\ Len(sent') = 1)
     /\ \A i \in 1..MaxTransports :
          ResumeSendOffer(Local, i) => (peers' = peers /\ sent' = <<>>)]_vars

\* C24: the media flags a record holds, which are the ones handed to the
\* stream-available notification when a track arrives, are the ones the peer
\* announced last: after a user-joined announcement of a remote peer the record
\* holds the announced audioEnabled and videoEnabled, and after a media-state
\* announcement of a peer with a record it holds the announced ones.
C24_RecordHoldsAnnouncedState ==
  [][/\ \A data \in Inbound("user-joined") :
          (handleUserJoined(Local, data) /\ data.from # Local)
            => /\ MapGet(peers'[Local], data.from).audioEnabled = data.audioEnabled
               /\ MapGet(peers'[Local], data.from).videoEnabled = data.videoEnabled
     /\ \A data \in Inbound("media-state-changed") :
          (handleMediaStateChanged(Local, data) /\ MapHas(peers[Local], data.from))
            => /\ MapGet(peers'[Local], data.from).audioEnabled = data.audioEnabled
               /\ MapGet(peers'[Local], data.from).videoEnabled = data.videoEnabled]_vars

\* C25: an offer addressed to the manager from a peer that already has a record
\* leaves that record as the table's record for the peer (same transport, same
\* stream, same media flags) and builds no second transport; the resumed
\* handler still sends an answer.
C25_OfferKeepsExistingRecord ==
  [][/\ \A data \in Inbound("offer") :
          (/\ handleOffer(Local, data)
           /\ data.to = Local
           /\ MapHas(peers[Local], data.from))
            => /\ MapGet(peers'[Local], data.from) = MapGet(peers[Local], data.from)
               /\ Len(pcs'[Local]) = Len(pcs[Local])
     /\ \A i \in 1..MaxTransports :
          (ResumeSetRemoteOffer(Local, i) /\ ~Closed(pcs[Local][i]))
            => (Len(sent') = 1 /\ sent'[1].kind = "answer")]_vars

\* C26: starting a screen share swaps the camera track for the screen track on
\* the video sender of every transport in the peer table, in place: the
\* descriptions, the connection state and the other senders of every transport
\* stay as they were, no transport is built, no offer and no answer is sent,
\* the peer table is unchanged, and exactly one media-state broadcast is sent,
\* carrying isScreenSharing = true.
C26_ScreenShareSwapsInPlace ==
  [][(startScreenShare(Local) \/ toggleScreenShare(Local))
       => /\ peers' = peers
          /\ Len(pcs'[Local]) = Len(pcs[Local])
          /\ \A i \in 1..Len(pcs[Local]) :
               /\ pcs'[Local][i].localDescription = pcs[Local][i].localDescription
               /\ pcs'[Local][i].remoteDescription = pcs[Local][i].remoteDescription
               /\ pcs'[Local][i].connectionState = pcs[Local][i].connectionState
               /\ pcs'[Local][i].senders \ {"video", "screen"}
                    = pcs[Local][i].senders \ {"video", "screen"}
          /\ \A r \in peers[Local] :
               "video" \in pcs[Local][r.peer].senders
                 => /\ "screen" \in pcs'[Local][r.peer].senders
                    /\ "video" \notin pcs'[Local][r.peer].senders
          /\ Kinds(sent') \cap {"offer", "answer"} = {}
          /\ Len(sent') = 1
          /\ sent'[1].kind = "media-state-changed"
          /\ sent'[1].from = Local
          /\ sent'[1].isScreenSharing]_vars

\* a screen share was started while b's transport, whose offer is out, carried
\* the camera: it now carries the screen track and the broadcast says so
C26_Witness ==
  /\ last.op = "startScreenShare"
  /\ screenTrack[Local].live
  /\ MapHas(peers[Local], "b")
  /\ pcs[Local][MapGet(peers[Local], "b").peer].localDescription = "offer"
  /\ "screen" \in pcs[Local][MapGet(peers[Local], "b").peer].senders
  /\ "video" \notin pcs[Local][MapGet(peers[Local], "b").peer].senders
  /\ Len(sent) = 1 /\ sent[1].isScreenSharing

\* C28: a grace timer that expires while a later disconnection of the same
\* transport is still within its own grace period (its own timer is still
\* pending) removes no record and fires no notification.  Timers of one
\* transport have the same delay, so they expire in the order they were
\* started: with two pending, the one expiring belongs to the earlier
\* disconnection.
C28_GraceTimerCancelledOnReconnect ==
  [][\A i \in 1..MaxTransports :
       (GraceTimerFires(Local, i) /\ pcs[Local][i].timers >= 2)
         => (peers' = peers /\ fired' = <<>>)]_vars

\* transport i has reported 'failed' and is the transport of a record
FailedInTable(i) ==
  /\ Transport(Local, i)
  /\ pcs[Local][i].connectionState = "failed"
  /\ \E r \in peers[Local] : r.peer = i

\* C29: a record whose transport has reported 'failed' does not stay in the
\* table for ever: with the timers running, eventually the record is gone.
C29_FailedFallsThroughToGrace ==
  \A i \in 1..MaxTransports : FailedInTable(i) ~> ~FailedInTable(i)

\* C30: a successful initializeMedia makes the acquired stream the tracked
\* local stream and attaches its tracks to every transport in the peer table;
\* it adds or removes no record, builds or closes no transport, sends no offer
\* and no answer; and afterwards every transport in the table that had
\* completed its offer/answer exchange and was delivering the tracks of the
\* previous stream to its remote end delivers the tracks of the new one.
C30_AcquisitionReattachesTracks ==
  [][\A v, a \in BOOLEAN, o \in {"primary", "fallback"} :
       initializeMedia(Local, v, a, o)
         => /\ localStream'[Local] = Acquired(v, a)
            /\ peers' = peers
            /\ Len(pcs'[Local]) = Len(pcs[Local])
            /\ \A i \in 1..Len(pcs[Local]) :
                 Closed(pcs'[Local][i]) = Closed(pcs[Local][i])
            /\ Kinds(sent') \cap {"offer", "answer"} = {}
            /\ \A r \in peers[Local] :
                 /\ pcs'[Local][r.peer].senders = Tracks(localStream'[Local])
                 /\ (/\ Negotiated(pcs[Local][r.peer])
                     /\ Tracks(localStream[Local]) # {}
                     /\ BeingSent(pcs[Local][r.peer]) = Tracks(localStream[Local]))
                      => BeingSent(pcs'[Local][r.peer]) = Tracks(localStream'[Local])]_vars

\* C27: the local non-host client has started to join (joinMeeting has run, so
\* the announcement is scheduled or sent) only if its own row of the
\* participants table is admitted.
C27_JoinOnlyAfterOwnAdmission ==
  isInitialized[Local] => admission.admitted[OwnRow] = "true"

\* C31: an offer, answer or ICE candidate whose target is not the local id,
\* and an answer or ICE candidate whose sender has no record, leave the table
\* and the transports as they were, send nothing and fire no notification.
C31_UnaddressedMessagesIgnored ==
  [][/\ \A data \in Inbound("offer") \cup Inbound("answer") \cup Inbound("ice-candidate") :
          (data.to # Local /\ Deliver(Local, data)) =>
             /\ peers' = peers /\ pcs' = pcs /\ lastCount' = lastCount
             /\ sent' = <<>> /\ fired' = <<>>
     /\ \A data \in Inbound("answer") \cup Inbound("ice-candidate") :
          (~MapHas(peers[Local], data.from) /\ Deliver(Local, data)) =>
             /\ peers' = peers /\ pcs' = pcs /\ lastCount' = lastCount
             /\ sent' = <<>> /\ fired' = <<>>]_vars

\* an ICE candidate was handled while nobody had a record yet
C31_Witness ==
  /\ last.op = "handleIceCandidate"
  /\ peers[Local] = {}
  /\ pcs[Local] = <<>>
  /\ sent = <<>> /\ fired = <<>>

\* C32: when the first getUserMedia request of an initializeMedia call
\* resolves, the call makes no second request, whatever happens while the new
\* tracks are attached to the transports in the table.
C32_FallbackOnlyAfterFailedAcquisition ==
  (last.op = "initializeMedia" /\ last.resolved[1]) => Len(last.calls) = 1

C34_NoOrphanTransport ==
  \A i \in 1..Len(pcs[Local]) :
    ~Closed(pcs[Local][i]) =>
      /\ MapHas(peers[Local], pcs[Local][i].peerId)
      /\ MapGet(peers[Local], pcs[Local][i].peerId).peer = i

\* C35: the grace timer of a transport that the table no longer refers to,
\* because a newer transport holds the record of the same peer id, neither
\* deletes that record nor fires peer-left.
C35_StaleTransportLeavesRecord ==
  [][\A i \in 1..MaxTransports :
       (/\ Transport(Local, i)
        /\ MapHas(peers[Local], pcs[Local][i].peerId)
        /\ MapGet(peers[Local], pcs[Local][i].peerId).peer # i
        /\ GraceTimerFires(Local, i)) =>
          /\ peers'[Local] = peers[Local]
          /\ PeerLeftNotes(fired', pcs[Local][i].peerId) = {}]_vars

\* C36: every media-state broadcast sent between the start of a screen share
\* and its end announces isScreenSharing = true.
C36_SharingAnnouncedWhileSharing ==
  [][(screenTrack[Local].live /\ screenTrack'[Local].live) =>
       \A k \in 1..Len(sent') :
         sent'[k].kind = "media-state-changed" => sent'[k].isScreenSharing]_vars

\* C37: a manager starts its announce timer once: isInitialized is never
\* reset, the timer is started only by a step that finds it false and a
\* user-joined is sent only by that timer's expiry; a joinMeeting call on an
\* initialized manager sends nothing, fires nothing and starts no timer.
C37_JoinMeetingIdempotent ==
  [][/\ isInitialized[Local] => isInitialized'[Local]
     /\ (announce'[Local] /\ ~announce[Local]) => ~isInitialized[Local]
     /\ "user-joined" \in Kinds(sent') => (announce[Local] /\ ~announce'[Local])
     /\ (isInitialized[Local] /\ joinMeeting(Local)) =>
          /\ sent' = <<>> /\ fired' = <<>>
          /\ announce' = announce /\ lastCount' = lastCount]_vars

\* joinMeeting was called again after the announcement had gone out
C37_Witness ==
  /\ last.op = "joinMeeting"
  /\ isInitialized[Local]
  /\ ~announce[Local]
  /\ sent = <<>> /\ fired = <<>>

\* C38: once leaveMeeting has been called, the manager sends no user-joined.
C38_NoJoinAnnouncedAfterLeave ==
  [][leave[Local] # "no" => "user-joined" \notin Kinds(sent')]_vars

\* C39: a manager that has not been joined holds no record and has created no
\* transport.
C39_NoSignalingBeforeJoin ==
  ~isInitialized[Local] => (peers[Local] = {} /\ pcs[Local] = <<>>)

\* the announcement of earlier reached nobody, and newcomer announced after
\* earlier had subscribed: newcomer never handled a user-joined, earlier did
Sequential(earlier, newcomer) ==
  /\ earlier # newcomer
  /\ \A i \in 1..Len(pcs[newcomer]) : ~pcs[newcomer][i].isInitiator
  /\ \E i \in 1..Len(pcs[earlier]) : pcs[earlier][i].isInitiator

\* C40: when two managers have joined one after the other and every
\* message has been delivered and handled, each holds one record of the
\* other, the earlier one is the offerer and the newcomer the answerer of
\* the one offer/answer exchange they completed, and both report a
\* participant count of two.
C40_MeshConverges ==
  \A earlier, newcomer \in Managers :
    (Settled /\ Sequential(earlier, newcomer)) =>
      /\ Cardinality(Records(earlier, newcomer)) = 1
      /\ Cardinality(Records(newcomer, earlier)) = 1
      /\ Len(pcs[earlier]) = 1 /\ Len(pcs[newcomer]) = 1
      /\ pcs[earlier][1].isInitiator /\ ~pcs[newcomer][1].isInitiator
      /\ Negotiated(pcs[earlier][1]) /\ pcs[earlier][1].remote = <<newcomer, 1>>
      /\ Negotiated(pcs[newcomer][1]) /\ pcs[newcomer][1].remote = <<earlier, 1>>
      /\ \A m \in Managers : lastCount[m] = Cardinality(Managers)

====
